---- MODULE Spec2Model ----
(***************************************************************************)
(* Model of src/main.py: VideoCompressor, a supervisor that probes a video *)
(* with ffprobe, derives a bitrate from a size budget, launches ffmpeg as  *)
(* a child process and polls the output file to drive a tqdm progress bar. *)
(*                                                                         *)
(* Numbers.  Python floats are IEEE-754 doubles.  The bitrate is computed  *)
(* here with a 53-bit mantissa and round-to-nearest-even, digit by digit,  *)
(* so that the results are the doubles Python produces.  Probed durations  *)
(* are drawn from values a double represents exactly (dyadic rationals),   *)
(* kept as numerator/denominator.  Sizes shown by the progress bar are     *)
(* kept in units of 1/10000 MB, the precision of round(..., 4).            *)
(*                                                                         *)
(* Threads.  start_compression starts a thread running log_output, which   *)
(* reads the child's pipe line by line; the main task reads the same pipe  *)
(* in process.communicate().  Both go through one buffered stream whose    *)
(* lock a read holds until it returns, so a step of the model is one call  *)
(* of readline, or the whole of communicate.  The thread is not a daemon:  *)
(* the Python process lasts until the main task and the thread have ended. *)
(***************************************************************************)
EXTENDS Integers, Sequences, FiniteSets, TLC

(***************************************************************************)
(* Bounds of the model.                                                    *)
(***************************************************************************)
MaxBudget == 2          \* largest --max_size_mb tried (smallest is -1)
MaxChunks == 2          \* the encoder appends at most this many chunks
ChunkBytes == 600000    \* bytes appended to the output file per write
MaxClock == 1           \* the wall clock advances at most this far
MaxLines == 2           \* the encoder prints at most this many lines
PipeCapacity == 1       \* lines the pipe holds before a write blocks

(***************************************************************************)
(* IEEE-754 double arithmetic on positive operands.                        *)
(* A double is [cls |-> "zero"] or                                         *)
(* [cls |-> "num", sign, exp, man]: value sign * 1.man * 2^exp, man being  *)
(* the 53 mantissa bits, most significant (always 1) first.                *)
(***************************************************************************)
MantBits == 53

Pow2(n) == 2 ^ n

Pow10(n) == 10 ^ n

RECURSIVE Gcd(_, _)
Gcd(a, b) == IF b = 0 THEN a ELSE Gcd(b, a % b)

IsPow2(n) == \E k \in 0..30 : n = Pow2(k)

Abs(n) == IF n < 0 THEN -n ELSE n

Bit == {0, 1}

FloatZero == [cls |-> "zero"]

Doubles ==
    [cls : {"num"}, sign : {-1, 1}, exp : Int, man : Seq(Bit)] \cup {FloatZero}

\* floor(log2(a/b)) for positive integers a, b
FloorLog2(a, b) ==
    IF a >= b
    THEN CHOOSE k \in 0..30 : a \div Pow2(k) >= b /\ a \div Pow2(k + 1) < b
    ELSE -(CHOOSE j \in 1..30 :
              /\ a >= (b + Pow2(j) - 1) \div Pow2(j)
              /\ a < (b + Pow2(j - 1) - 1) \div Pow2(j - 1))

\* LongDiv[rem, b, n]: n quotient bits (most significant first) of rem/b, rem < b,
\* and the remainder left: schoolbook division, one half of the digits after the other
LongDiv[t \in Nat \X Nat \X Nat] ==
    LET rem == t[1]
        b   == t[2]
        n   == t[3]
    IN  IF n = 0 THEN [bits |-> <<>>, rem |-> rem]
        ELSE IF n = 1
        THEN [bits |-> <<IF 2 * rem >= b THEN 1 ELSE 0>>,
              rem  |-> IF 2 * rem >= b THEN 2 * rem - b ELSE 2 * rem]
        ELSE LET left  == LongDiv[<<rem, b, n \div 2>>]
                 right == LongDiv[<<left.rem, b, n - n \div 2>>]
             IN  [bits |-> left.bits \o right.bits, rem |-> right.rem]

\* a bit string (most significant first) plus one
Increment[bits \in Seq(Bit)] ==
    LET n     == Len(bits)
        zeros == {i \in 1..n : bits[i] = 0}
        last  == CHOOSE i \in zeros : \A j \in zeros : j <= i
    IN  IF zeros = {} THEN <<1>> \o [i \in 1..n |-> 0]
        ELSE [i \in 1..n |-> IF i < last THEN bits[i] ELSE IF i = last THEN 1 ELSE 0]

\* RoundBits[sign, exp, bits, sticky]: the double sign * 1.bits * 2^exp with the
\* bit string (leading 1) rounded to MantBits bits, ties to even; sticky says
\* that non-zero digits follow the ones given
RoundBits[t \in {-1, 1} \X Int \X Seq(Bit) \X BOOLEAN] ==
    LET sign == t[1]
        exp  == t[2]
        bits == t[3]
        n    == Len(bits)
        kept == SubSeq(bits, 1, MantBits)
        rbit == IF n > MantBits THEN bits[MantBits + 1] ELSE 0
        rest == t[4] \/ \E i \in (MantBits + 2)..n : bits[i] = 1
        up   == rbit = 1 /\ (rest \/ kept[MantBits] = 1)
    IN  IF ~up THEN [cls |-> "num", sign |-> sign, exp |-> exp, man |-> kept]
        ELSE IF Len(Increment[kept]) > MantBits
             THEN [cls |-> "num", sign |-> sign, exp |-> exp + 1,
                   man |-> SubSeq(Increment[kept], 1, MantBits)]
             ELSE [cls |-> "num", sign |-> sign, exp |-> exp, man |-> Increment[kept]]

\* FloatDivPos[sign, a, b]: the double nearest to sign * a/b for integers a, b > 0
FloatDivPos[t \in {-1, 1} \X Nat \X Nat] ==
    LET a  == t[2]
        b  == t[3]
        e  == FloorLog2(a, b)
        a1 == IF e < 0 THEN a * Pow2(-e) ELSE a
        b1 == IF e > 0 THEN b * Pow2(e) ELSE b
        q  == LongDiv[<<a1 - b1, b1, MantBits>>]
    IN  RoundBits[<<t[1], e, <<1>> \o q.bits, q.rem # 0>>]

\* the double nearest to a/b for integers a and b > 0
FloatDiv(a, b) ==
    IF a = 0 THEN FloatZero
    ELSE FloatDivPos[<<IF a < 0 THEN -1 ELSE 1, Abs(a), b>>]

\* binary digits of k >= 0, most significant first, no leading zero
BitsOf[k \in Nat] == IF k = 0 THEN <<>> ELSE BitsOf[k \div 2] \o <<k % 2>>

\* MulCarry[bits, r, carry]: bits * r + carry for a bit string (most significant
\* first) and an integer r > 0: the low Len(bits) digits and the carry out of
\* them, the low half of the digits first
MulCarry[t \in Seq(Bit) \X Nat \X Nat] ==
    LET bits == t[1]
        r    == t[2]
        n    == Len(bits)
    IN  IF n = 0 THEN [bits |-> <<>>, carry |-> t[3]]
        ELSE IF n = 1
        THEN [bits |-> <<(bits[1] * r + t[3]) % 2>>,
              carry |-> (bits[1] * r + t[3]) \div 2]
        ELSE LET low  == MulCarry[<<SubSeq(bits, n \div 2 + 1, n), r, t[3]>>]
                 high == MulCarry[<<SubSeq(bits, 1, n \div 2), r, low.carry>>]
             IN  [bits |-> high.bits \o low.bits, carry |-> high.carry]

\* MulBits[bits, r]: a bit string (most significant first) times the integer r > 0
MulBits[t \in Seq(Bit) \X Nat] ==
    BitsOf[MulCarry[<<t[1], t[2], 0>>].carry] \o MulCarry[<<t[1], t[2], 0>>].bits

\* FloatTimes[f, r]: the double nearest to f * r for a double f and an integer r > 0
FloatTimes[t \in Doubles \X Nat] ==
    LET f == t[1]
        p == MulBits[<<f.man, t[2]>>]
    IN  IF f.cls = "zero" THEN FloatZero
        ELSE RoundBits[<<f.sign, f.exp + (Len(p) - MantBits), p, FALSE>>]

FloatMulInt(f, r) == FloatTimes[<<f, r>>]

\* f / 2^k, exact (no underflow in the modelled range)
FloatShift(f, k) ==
    IF f.cls = "zero" THEN FloatZero ELSE [f EXCEPT !.exp = @ - k]

BitsToInt[bits \in Seq(Bit)] ==
    LET n == Len(bits)
    IN  IF n = 0 THEN 0
        ELSE IF n = 1 THEN bits[1]
        ELSE BitsToInt[SubSeq(bits, 1, n \div 2)] * Pow2(n - n \div 2)
             + BitsToInt[SubSeq(bits, n \div 2 + 1, n)]

\* UlpsApart[f, g]: |f - g| in units of the last place of the one with the smaller
\* exponent, for doubles of one sign whose exponents differ by at most one;
\* 1000000 when they are farther apart
UlpsApart[t \in Doubles \X Doubles] ==
    LET f == t[1]
        g == t[2]
    IN  IF f.cls = "zero" \/ g.cls = "zero"
        THEN IF f = g THEN 0 ELSE 1000000
        ELSE IF f.sign # g.sign \/ Abs(f.exp - g.exp) > 1 THEN 1000000
        ELSE LET fs  == IF f.exp > g.exp THEN 2 ELSE 1
                 gs  == IF g.exp > f.exp THEN 2 ELSE 1
                 dhi == fs * BitsToInt[SubSeq(f.man, 1, 26)]
                          - gs * BitsToInt[SubSeq(g.man, 1, 26)]
                 dlo == fs * BitsToInt[SubSeq(f.man, 27, 53)]
                          - gs * BitsToInt[SubSeq(g.man, 27, 53)]
             IN  IF Abs(dhi) > 4 THEN 1000000 ELSE Abs(dhi * Pow2(27) + dlo)

UlpDistance(f, g) == UlpsApart[<<f, g>>]

(***************************************************************************)
(* get_video_info: the text ffprobe prints and the regular expressions     *)
(* that read it.  A value is the sequence of characters after "key=" on    *)
(* the key's line; NoLine says the output has no such line.                *)
(***************************************************************************)
NoLine == <<"absent">>

Digits == {"0", "1", "2", "3", "4", "5", "6", "7", "8", "9"}

DigitVal(c) ==
    CASE c = "0" -> 0 [] c = "1" -> 1 [] c = "2" -> 2 [] c = "3" -> 3 [] c = "4" -> 4
      [] c = "5" -> 5 [] c = "6" -> 6 [] c = "7" -> 7 [] c = "8" -> 8 [] c = "9" -> 9

\* the longest prefix of chars made of characters of class: what (class+) captures
RECURSIVE Capture(_, _)
Capture(class, chars) ==
    IF chars = <<>> \/ chars[1] \notin class THEN <<>>
    ELSE <<chars[1]>> \o Capture(class, Tail(chars))

\* re.compile("key=(class+)").search(output): the captured group, or NoLine for None
Search(class, value) ==
    IF value = NoLine \/ Capture(class, value) = <<>> THEN NoLine
    ELSE Capture(class, value)

\* int(text) for a non-empty string of digits
RECURSIVE ParseInt(_)
ParseInt(text) ==
    IF text = <<>> THEN 0
    ELSE 10 * ParseInt(SubSeq(text, 1, Len(text) - 1)) + DigitVal(text[Len(text)])

\* float(text) for a string of digits and dots: [ok, num, den], the value num/den
\* in lowest terms; not ok (ValueError) with two dots or no digit
ParseFloat(text) ==
    LET dots   == {i \in 1..Len(text) : text[i] = "."}
        digits == SelectSeq(text, LAMBDA c : c # ".")
        frac   == IF dots = {} THEN 0 ELSE Len(text) - (CHOOSE i \in dots : TRUE)
        n      == ParseInt(digits)
        g      == Gcd(n, Pow10(frac))
    IN  IF Cardinality(dots) > 1 \/ digits = <<>>
        THEN [ok |-> FALSE, num |-> 0, den |-> 1]
        ELSE [ok |-> TRUE, num |-> n \div g, den |-> Pow10(frac) \div g]

DefaultBitDepth == 8

\* a missing or unreadable duration is given a default, like the bit depth
get_video_info_Defaults(out) ==
    LET d == Search(Digits \cup {"."}, out.duration)
        w == Search(Digits, out.width)
        h == Search(Digits, out.height)
        b == Search(Digits, out.bits)
        Raise(e) == [ok |-> FALSE, error |-> e]
    IN  IF out.rc # 0 THEN Raise("CalledProcessError")
        ELSE IF w = NoLine \/ h = NoLine THEN Raise("AttributeError")
        ELSE [ok |-> TRUE,
              duration  |-> IF d = NoLine \/ ~ParseFloat(d).ok
                            THEN [num |-> 0, den |-> 1]
                            ELSE [num |-> ParseFloat(d).num, den |-> ParseFloat(d).den],
              width     |-> ParseInt(w),
              height    |-> ParseInt(h),
              bit_depth |-> IF b = NoLine THEN DefaultBitDepth ELSE ParseInt(b)]

\* get_video_info on the ffprobe result out = [rc, duration, width, height, bits]
get_video_info(out) ==
    LET d == Search(Digits \cup {"."}, out.duration)
        w == Search(Digits, out.width)
        h == Search(Digits, out.height)
        b == Search(Digits, out.bits)
        Raise(e) == [ok |-> FALSE, error |-> e]
    IN  IF out.rc # 0 THEN Raise("CalledProcessError")
        ELSE IF d = NoLine THEN Raise("AttributeError")
        ELSE IF ~ParseFloat(d).ok THEN Raise("ValueError")
        ELSE IF w = NoLine THEN Raise("AttributeError")
        ELSE IF h = NoLine THEN Raise("AttributeError")
        ELSE [ok |-> TRUE,
              duration  |-> [num |-> ParseFloat(d).num, den |-> ParseFloat(d).den],
              width     |-> ParseInt(w),
              height    |-> ParseInt(h),
              bit_depth |-> IF b = NoLine THEN DefaultBitDepth ELSE ParseInt(b)]

(***************************************************************************)
(* calculate_bitrate, step by step as the code computes it.                *)
(***************************************************************************)
BitsPerMb == 1024 * 1024 * 8

\* bits per pixel taken for the bitrate: the multiplication by resolution is lost
calculate_bitrate_PerPixel(max_size, duration, resolution, bit_depth) ==
    LET total_num == duration.num * resolution
        bits_per_pixel == FloatDiv(max_size * BitsPerMb * duration.den, total_num)
    IN  IF total_num = 0 THEN [ok |-> FALSE, error |-> "ZeroDivisionError"]
        ELSE [ok |-> TRUE, value |-> FloatShift(bits_per_pixel, 10)]

calculate_bitrate(max_size, duration, resolution, bit_depth) ==
    LET required_file_size_bits == max_size * BitsPerMb
        \* total_pixels = duration * resolution, exact for the modelled values
        total_num == duration.num * resolution
        total_den == duration.den
        bits_per_pixel == FloatDiv(required_file_size_bits * total_den, total_num)
        required_bitrate_kbps == FloatShift(FloatMulInt(bits_per_pixel, resolution), 10)
    IN  IF total_num = 0 THEN [ok |-> FALSE, error |-> "ZeroDivisionError"]
        ELSE [ok |-> TRUE, value |-> required_bitrate_kbps]

\* the simple form of the specification: max_size_mb * 8192 / duration, one division
SimpleBitrate(max_size, duration) ==
    FloatDiv(max_size * 8192 * duration.den, duration.num)

\* round(bytes / 1024 / 1024, 4) in units of 1/10000 MB: bytes * 10000 / 2^20,
\* rounded to the nearest integer, ties to even
SizeUnits == 10000
output_size_mb(bytes) ==
    LET num == bytes * 625
        q   == num \div 65536
        r   == num % 65536
    IN  IF 2 * r > 65536 \/ (2 * r = 65536 /\ q % 2 = 1) THEN q + 1 ELSE q

\* str.lower() on the answers the model types at the prompt
Lower(s) == IF s = "Y" THEN "y" ELSE IF s = "N" THEN "n" ELSE s

(***************************************************************************)
(* What the environment can answer.                                        *)
(***************************************************************************)
Answers == {"y", "Y", "n", "N", "yes", ""}

DurationValues ==
    {NoLine, <<"N", "/", "A">>, <<"0", ".", "0">>, <<"2", ".", "5">>, <<"3">>,
     <<"1", ".", "2", ".", "3">>}
WidthValues == {NoLine, <<"7">>}
HeightValues == {NoLine, <<"3">>}
BitsValues == {NoLine, <<"N", "/", "A">>, <<"1", "0">>}

\* ffprobe exits 0 and prints some of the four lines, or exits non-zero
ProbeOutputs ==
    [rc : {0}, duration : DurationValues, width : WidthValues,
     height : HeightValues, bits : BitsValues]
    \cup [rc : {1}, duration : {NoLine}, width : {NoLine},
          height : {NoLine}, bits : {NoLine}]

Budgets == (0 - 1)..MaxBudget

(***************************************************************************)
(* State.                                                                  *)
(***************************************************************************)
VARIABLES
    max_size_mb,          \* self.max_size_mb
    remove_original,      \* self.remove_original
    verbosity,            \* self.verbosity
    ffmpeg_installed,     \* whether "ffmpeg -version" succeeds on this machine
    pc,                   \* where the main task is
    exit_code,            \* exit status the main task ends with; Unbound while it runs
    error,                \* the exception that ended the run, "none" otherwise
    input_exists,         \* the file at self.input_file
    output_file,          \* the file at self.output_file
    overwrite,            \* the answer typed at the prompt, "unset" before
    start,                \* local start of compress_video
    clock,                \* datetime.datetime.now()
    elapsed,              \* the elapsed time reported at lines 157-158
    probe_output,         \* local output of get_video_info: what ffprobe printed
    info,                 \* duration, width, height, bit_depth in start_compression
    bitrate,              \* local bitrate of start_compression
    process,              \* the ffmpeg child
    pbar_n,               \* pbar.n
    output_file_size_mb,  \* local output_file_size_mb of compress_video
    calls,                \* how often each external call was made
    stdout,               \* process.stdout: the pipe the child's output goes to
    reader,               \* the thread running log_output
    communicated          \* the lines process.communicate() read

vars == <<max_size_mb, remove_original, ffmpeg_installed, pc, exit_code, error, input_exists,
          output_file, overwrite, start, clock, elapsed, probe_output, info, bitrate,
          process, pbar_n, output_file_size_mb, calls, verbosity, stdout, reader,
          communicated>>

\* a local name that no assignment has bound yet
Unbound == -1

NoFile == [exists |-> FALSE, bytes |-> 0, origin |-> "none"]
OldFile == [exists |-> TRUE, bytes |-> ChunkBytes, origin |-> "old"]
NoOutput == [rc |-> Unbound]
NoInfo == [ok |-> FALSE, error |-> "none"]
NoBitrate == [ok |-> FALSE, error |-> "none"]
NoProcess == [state |-> "none", returncode |-> Unbound, bitrate |-> FloatZero]
\* written: lines the child has printed; lines: those waiting in the pipe;
\* pending: the child is blocked in a write to the full pipe
NoPipe == [written |-> 0, lines |-> 0, pending |-> FALSE, closed |-> FALSE]
\* state: "calling" before a call of readline, "readline" inside the call,
\* "done" after the loop, "failed" after an exception
NoThread == [state |-> "none", read |-> 0, logged |-> 0]
\* numbers of -v flags on either side of the test at line 129
Verbosities == {2, 3}

Terminal == {"cancelled", "done", "exited", "crashed", "interrupted"}

Init ==
    /\ max_size_mb \in Budgets
    /\ remove_original \in BOOLEAN
    /\ ffmpeg_installed \in BOOLEAN
    /\ output_file \in {NoFile, OldFile}
    /\ pc = "begin"
    /\ exit_code = Unbound
    /\ error = "none"
    /\ input_exists = TRUE
    /\ overwrite = "unset"
    /\ start = Unbound
    /\ clock = 0
    /\ elapsed = Unbound
    /\ probe_output = NoOutput
    /\ info = NoInfo
    /\ bitrate = NoBitrate
    /\ process = NoProcess
    /\ pbar_n = 0
    /\ output_file_size_mb = Unbound
    /\ calls = [check |-> 0, probe |-> 0, bitrate |-> 0, launch |-> 0]
    /\ verbosity \in Verbosities
    /\ stdout = NoPipe
    /\ reader = NoThread
    /\ communicated = 0

inputs == <<max_size_mb, remove_original, ffmpeg_installed, verbosity>>
files == <<input_exists, output_file>>
timing == <<start, clock, elapsed>>
locals == <<probe_output, info, bitrate>>
progress == <<pbar_n, output_file_size_mb>>
stream == <<stdout, reader, communicated>>

\* an exception nothing catches: traceback, exit status 1
Raise(e) ==
    /\ pc' = "crashed"
    /\ error' = e
    /\ exit_code' = 1

(***************************************************************************)
(* compress_video, lines 138-146.                                          *)
(***************************************************************************)
\* a prompt that takes only "n" for a refusal
Declines_OnlyNo(answer) == Lower(answer) = "n"

\* overwrite.lower() != 'y'
Declines(answer) == Lower(answer) # "y"

OutputAbsent ==
    /\ pc = "begin"
    /\ ~output_file.exists
    /\ pc' = "check_ffmpeg"
    /\ UNCHANGED <<inputs, exit_code, error, files, overwrite, timing, locals,
                   process, progress, calls, stream>>

DeclineOverwrite ==
    /\ pc = "begin"
    /\ output_file.exists
    /\ \E answer \in Answers :
        /\ Declines(answer)
        /\ overwrite' = answer
    /\ pc' = "cancelled"
    /\ exit_code' = 0
    /\ UNCHANGED <<inputs, error, files, timing, locals, process, progress, calls, stream>>

\* a confirmation that leaves the old output file for the encoder to replace
ConfirmOverwrite_KeepFile ==
    /\ pc = "begin"
    /\ output_file.exists
    /\ \E answer \in Answers :
        /\ ~Declines(answer)
        /\ overwrite' = answer
    /\ start' = clock
    /\ pc' = "check_ffmpeg"
    /\ UNCHANGED <<inputs, exit_code, error, files, clock, elapsed, locals,
                   process, progress, calls, stream>>

\* the answer is y: os.remove(self.output_file), start = now
ConfirmOverwrite ==
    /\ pc = "begin"
    /\ output_file.exists
    /\ \E answer \in Answers :
        /\ ~Declines(answer)
        /\ overwrite' = answer
    /\ output_file' = NoFile
    /\ start' = clock
    /\ pc' = "check_ffmpeg"
    /\ UNCHANGED <<inputs, exit_code, error, input_exists, clock, elapsed, locals,
                   process, progress, calls, stream>>

(***************************************************************************)
(* start_compression, lines 107-122.                                       *)
(***************************************************************************)
FfmpegFound ==
    /\ pc = "check_ffmpeg"
    /\ ffmpeg_installed
    /\ calls' = [calls EXCEPT !.check = @ + 1]
    /\ pc' = "get_video_info"
    /\ UNCHANGED <<inputs, exit_code, error, files, overwrite, timing, locals,
                   process, progress, stream>>

\* the error is logged but the exit is forgotten
FfmpegMissing_NoExit ==
    /\ pc = "check_ffmpeg"
    /\ ~ffmpeg_installed
    /\ calls' = [calls EXCEPT !.check = @ + 1]
    /\ pc' = "get_video_info"
    /\ UNCHANGED <<inputs, exit_code, error, files, overwrite, timing, locals,
                   process, progress, stream>>

\* check_ffmpeg returns False: logging.error, exit(1)
FfmpegMissing ==
    /\ pc = "check_ffmpeg"
    /\ ~ffmpeg_installed
    /\ calls' = [calls EXCEPT !.check = @ + 1]
    /\ pc' = "exited"
    /\ error' = "SystemExit"
    /\ exit_code' = 1
    /\ UNCHANGED <<inputs, files, overwrite, timing, locals, process, progress, stream>>

\* a probe that is run again when it fails
GetVideoInfo_Retry ==
    /\ pc = "get_video_info"
    /\ calls' = [calls EXCEPT !.probe = @ + 1]
    /\ \E out \in ProbeOutputs :
        LET result == get_video_info(out)
        IN  /\ probe_output' = out
            /\ IF result.ok
               THEN /\ info' = result
                    /\ pc' = "calculate_bitrate"
               ELSE /\ pc' = "get_video_info"
                    /\ UNCHANGED info
    /\ UNCHANGED <<inputs, exit_code, error, files, overwrite, timing, bitrate,
                   process, progress, stream>>

\* line 111: self.get_video_info(), ffprobe run once
GetVideoInfo ==
    /\ pc = "get_video_info"
    /\ calls' = [calls EXCEPT !.probe = @ + 1]
    /\ \E out \in ProbeOutputs :
        LET result == get_video_info(out)
        IN  /\ probe_output' = out
            /\ IF result.ok
               THEN /\ info' = result
                    /\ pc' = "calculate_bitrate"
                    /\ UNCHANGED <<exit_code, error>>
               ELSE /\ Raise(result.error)
                    /\ UNCHANGED info
    /\ UNCHANGED <<inputs, files, overwrite, timing, bitrate, process, progress, stream>>

CalculateBitrate ==
    /\ pc = "calculate_bitrate"
    /\ calls' = [calls EXCEPT !.bitrate = @ + 1]
    /\ LET resolution == info.width * info.height
           result == calculate_bitrate(max_size_mb, info.duration, resolution,
                                       info.bit_depth)
       IN  IF result.ok
           THEN /\ bitrate' = result
                /\ pc' = "popen"
                /\ UNCHANGED <<exit_code, error>>
           ELSE /\ Raise(result.error)
                /\ UNCHANGED bitrate
    /\ UNCHANGED <<inputs, files, overwrite, timing, probe_output, info, process,
                   progress, stream>>

\* the command line is built from a bitrate computed a second time
Launch_Recompute ==
    /\ pc = "popen"
    /\ calls' = [calls EXCEPT !.launch = @ + 1, !.bitrate = @ + 1]
    /\ process' = [state |-> "running", returncode |-> Unbound,
                   bitrate |-> calculate_bitrate(max_size_mb, info.duration,
                                                 info.width * info.height,
                                                 info.bit_depth).value]
    /\ probe_output' = NoOutput
    /\ info' = NoInfo
    /\ bitrate' = NoBitrate
    /\ stdout' = NoPipe
    /\ reader' = [state |-> "calling", read |-> 0, logged |-> 0]
    /\ pc' = "tqdm"
    /\ UNCHANGED <<inputs, exit_code, error, files, overwrite, timing, progress,
                   communicated>>

\* subprocess.Popen with the bitrate in the command line and the child's
\* stdout and stderr on one pipe; the thread running log_output is started
\* and never joined; the locals of start_compression end with its return
Launch ==
    /\ pc = "popen"
    /\ calls' = [calls EXCEPT !.launch = @ + 1]
    /\ process' = [state |-> "running", returncode |-> Unbound,
                   bitrate |-> bitrate.value]
    /\ probe_output' = NoOutput
    /\ info' = NoInfo
    /\ bitrate' = NoBitrate
    /\ stdout' = NoPipe
    /\ reader' = [state |-> "calling", read |-> 0, logged |-> 0]
    /\ pc' = "tqdm"
    /\ UNCHANGED <<inputs, exit_code, error, files, overwrite, timing, progress,
                   communicated>>

(***************************************************************************)
(* compress_video, lines 148-160.                                          *)
(***************************************************************************)
\* tqdm.update(n): self.n += n, with no clamp at total
pbar_update(n, delta) == n + delta

\* with tqdm(total=self.max_size_mb, ...) as pbar
OpenProgress ==
    /\ pc = "tqdm"
    /\ pbar_n' = 0
    /\ pc' = "poll"
    /\ UNCHANGED <<inputs, exit_code, error, files, overwrite, timing, locals,
                   process, output_file_size_mb, calls, stream>>

\* while process.poll() is None: the child is still running
PollRunning ==
    /\ pc = "poll"
    /\ process.state = "running"
    /\ pc' = "sample"
    /\ UNCHANGED <<inputs, exit_code, error, files, overwrite, timing, locals,
                   process, progress, calls, stream>>

\* a loop that gives up polling and goes on to the report without a wait
PollExited_GiveUp ==
    /\ pc = "poll"
    /\ pc' = "report"
    /\ UNCHANGED <<inputs, exit_code, error, files, overwrite, timing, locals,
                   process, progress, calls, stream>>

\* process.poll() returns the exit status: the loop ends
PollExited ==
    /\ pc = "poll"
    /\ process.state = "exited"
    /\ pc' = "final_update"
    /\ UNCHANGED <<inputs, exit_code, error, files, overwrite, timing, locals,
                   process, progress, calls, stream>>

\* lines 150-153: sample the file if it is there, then sleep
Sample ==
    /\ pc = "sample"
    /\ IF output_file.exists
       THEN /\ output_file_size_mb' = output_size_mb(output_file.bytes)
            /\ pbar_n' = pbar_update(pbar_n, output_file_size_mb' - pbar_n)
       ELSE UNCHANGED progress
    /\ pc' = "poll"
    /\ UNCHANGED <<inputs, exit_code, error, files, overwrite, timing, locals,
                   process, calls, stream>>

\* line 154, output_file_size_mb bound by some pass of the loop
FinalUpdate ==
    /\ pc = "final_update"
    /\ output_file_size_mb # Unbound
    /\ pbar_n' = pbar_update(pbar_n, output_file_size_mb)
    /\ pc' = "communicate"
    /\ UNCHANGED <<inputs, exit_code, error, files, overwrite, timing, locals,
                   process, output_file_size_mb, calls, stream>>

\* line 154, no pass of the loop sampled the file
FinalUpdateUnbound ==
    /\ pc = "final_update"
    /\ output_file_size_mb = Unbound
    /\ Raise("UnboundLocalError")
    /\ UNCHANGED <<inputs, files, overwrite, timing, locals, process, progress,
                   calls, stream>>

\* process.communicate() with one pipe: self.stdout.read() to end of stream,
\* self.stdout.close(), self.wait(); read() takes the lock of the buffered
\* stream, which a readline() in progress holds
Communicate ==
    /\ pc = "communicate"
    /\ process.state = "exited"
    /\ reader.state # "readline"
    /\ communicated' = stdout.lines
    /\ stdout' = [stdout EXCEPT !.lines = 0, !.closed = TRUE]
    /\ pc' = "report"
    /\ UNCHANGED <<inputs, exit_code, error, files, overwrite, timing, locals,
                   process, progress, calls, reader>>

\* lines 157-158, start bound at line 145
Report ==
    /\ pc = "report"
    /\ start # Unbound
    /\ elapsed' = clock - start
    /\ pc' = "cleanup"
    /\ UNCHANGED <<inputs, exit_code, error, files, overwrite, start, clock, locals,
                   process, progress, calls, stream>>

\* line 157, the output file did not exist at line 138: start was never assigned
ReportUnbound ==
    /\ pc = "report"
    /\ start = Unbound
    /\ Raise("UnboundLocalError")
    /\ UNCHANGED <<inputs, files, overwrite, timing, locals, process, progress,
                   calls, stream>>

\* lines 159-160, then return: the program ends with status 0
Cleanup ==
    /\ pc = "cleanup"
    /\ input_exists' = IF remove_original THEN FALSE ELSE input_exists
    /\ pc' = "done"
    /\ exit_code' = 0
    /\ UNCHANGED <<inputs, error, output_file, overwrite, timing, locals, process,
                   progress, calls, stream>>

(***************************************************************************)
(* The environment: the ffmpeg child, the clock, the user's Ctrl-C.        *)
(***************************************************************************)
\* ffmpeg creates the output file, then appends to it
ChildWrite ==
    /\ process.state = "running"
    /\ ~stdout.pending
    /\ output_file.bytes < MaxChunks * ChunkBytes
    /\ output_file' =
         IF output_file.exists
         THEN [output_file EXCEPT !.bytes = @ + ChunkBytes]
         ELSE [exists |-> TRUE, bytes |-> 0, origin |-> "encoder"]
    /\ UNCHANGED <<inputs, pc, exit_code, error, input_exists, overwrite, timing,
                   locals, process, progress, calls, stream>>

\* the child prints a line to its stdout or stderr; with the pipe full the
\* write blocks until a line is read
ChildPrint ==
    /\ process.state = "running"
    /\ ~stdout.pending
    /\ stdout.written < MaxLines
    /\ stdout' = IF stdout.lines < PipeCapacity
                 THEN [stdout EXCEPT !.written = @ + 1, !.lines = @ + 1]
                 ELSE [stdout EXCEPT !.pending = TRUE]
    /\ UNCHANGED <<inputs, pc, exit_code, error, files, overwrite, timing, locals,
                   process, progress, calls, reader, communicated>>

ChildExit ==
    /\ process.state = "running"
    /\ ~stdout.pending
    /\ \E code \in {0, 1} :
        process' = [process EXCEPT !.state = "exited", !.returncode = code]
    /\ UNCHANGED <<inputs, pc, exit_code, error, files, overwrite, timing, locals,
                   progress, calls, stream>>

(***************************************************************************)
(* log_output, lines 124-130, in its own thread.                           *)
(***************************************************************************)
\* the pipe after one line left it: a blocked write completes
Drained(pipe) ==
    IF pipe.pending
    THEN [pipe EXCEPT !.pending = FALSE, !.written = @ + 1]
    ELSE [pipe EXCEPT !.lines = @ - 1]

\* a reader that logs every line it reads
Logged_Always(line_count) == line_count

\* if self.verbosity >= 3: logging.info(line)
Logged(line_count) == IF verbosity >= 3 THEN line_count ELSE 0

\* the thread is alive: in the loop of line 127
ReaderAlive == reader.state \in {"calling", "readline"}

\* line 127: the next call of process.stdout.readline() starts; it holds the
\* lock of the buffered stream until it returns
ReaderCall ==
    /\ reader.state = "calling"
    /\ ~stdout.closed
    /\ reader' = [reader EXCEPT !.state = "readline"]
    /\ UNCHANGED <<inputs, pc, exit_code, error, files, overwrite, timing, locals,
                   process, progress, calls, stdout, communicated>>

\* readline() returns a line; lines 129-130 log it
ReaderRead ==
    /\ reader.state = "readline"
    /\ stdout.lines > 0
    /\ stdout' = Drained(stdout)
    /\ reader' = [state |-> "calling", read |-> reader.read + 1,
                  logged |-> reader.logged + Logged(1)]
    /\ UNCHANGED <<inputs, pc, exit_code, error, files, overwrite, timing, locals,
                   process, progress, calls, communicated>>

\* readline() returns b'' at end of stream: the loop and the thread end
ReaderEof ==
    /\ reader.state = "readline"
    /\ stdout.lines = 0
    /\ process.state = "exited"
    /\ reader' = [reader EXCEPT !.state = "done"]
    /\ UNCHANGED <<inputs, pc, exit_code, error, files, overwrite, timing, locals,
                   process, progress, calls, stdout, communicated>>

\* readline() called on the stream communicate() has closed: ValueError
\* ends the thread
ReaderClosed ==
    /\ reader.state = "calling"
    /\ stdout.closed
    /\ reader' = [reader EXCEPT !.state = "failed"]
    /\ UNCHANGED <<inputs, pc, exit_code, error, files, overwrite, timing, locals,
                   process, progress, calls, stdout, communicated>>

Tick ==
    /\ pc \notin Terminal
    /\ clock < MaxClock
    /\ clock' = clock + 1
    /\ UNCHANGED <<inputs, pc, exit_code, error, files, overwrite, start, elapsed,
                   locals, process, progress, calls, stream>>

\* a handler that stops the child before it exits
Interrupt_Terminate ==
    /\ pc \notin Terminal
    /\ pc' = "interrupted"
    /\ error' = "KeyboardInterrupt"
    /\ exit_code' = 1
    /\ process' = IF process.state = "running"
                  THEN [process EXCEPT !.state = "exited", !.returncode = 1]
                  ELSE process
    /\ UNCHANGED <<inputs, files, overwrite, timing, locals, progress, calls, stream>>

\* lines 178-180: KeyboardInterrupt anywhere in compress_video, exit(1)
Interrupt ==
    /\ pc \notin Terminal
    /\ pc' = "interrupted"
    /\ error' = "KeyboardInterrupt"
    /\ exit_code' = 1
    /\ UNCHANGED <<inputs, files, overwrite, timing, locals, process, progress,
                   calls, stream>>

Next ==
    \/ OutputAbsent
    \/ DeclineOverwrite
    \/ ConfirmOverwrite
    \/ FfmpegFound
    \/ FfmpegMissing
    \/ GetVideoInfo
    \/ CalculateBitrate
    \/ Launch
    \/ OpenProgress
    \/ PollRunning
    \/ PollExited
    \/ Sample
    \/ FinalUpdate
    \/ FinalUpdateUnbound
    \/ Communicate
    \/ Report
    \/ ReportUnbound
    \/ Cleanup
    \/ ChildWrite
    \/ ChildPrint
    \/ ChildExit
    \/ ReaderCall
    \/ ReaderRead
    \/ ReaderEof
    \/ ReaderClosed
    \/ Tick
    \/ Interrupt

Spec == Init /\ [][Next]_vars

TypeOK ==
    /\ pc \in {"begin", "check_ffmpeg", "get_video_info", "calculate_bitrate", "popen",
               "tqdm", "poll", "sample", "final_update", "communicate", "report",
               "cleanup"} \cup Terminal
    /\ process.state \in {"none", "running", "exited"}
    /\ pbar_n >= 0
    /\ stdout.lines \in 0..PipeCapacity
    /\ stdout.written \in 0..(MaxLines + 1)
    /\ reader.state \in {"none", "calling", "readline", "done", "failed"}
    /\ reader.read + communicated + stdout.lines = stdout.written

(***************************************************************************)
(* calculate_bitrate on its own: every state a run can be in when          *)
(* get_video_info has returned, over a wider range of probed values.       *)
(***************************************************************************)
BitrateDurations ==
    {<<"0", ".", "2", "5">>, <<"0", ".", "5">>, <<"0", ".", "7", "5">>, <<"1">>,
     <<"1", ".", "5">>, <<"2", ".", "5">>, <<"3">>, <<"5">>, <<"6">>, <<"7">>,
     <<"6", "0">>}
BitrateWidths == {<<"1">>, <<"2">>, <<"4">>, <<"7">>, <<"1", "6">>, <<"1", "9", "2", "0">>}
BitrateHeights == {<<"1">>, <<"3">>, <<"1", "0", "8", "0">>}

BitrateInit ==
    /\ max_size_mb \in Budgets
    /\ remove_original = FALSE
    /\ ffmpeg_installed = TRUE
    /\ output_file = NoFile
    /\ pc = "calculate_bitrate"
    /\ exit_code = Unbound
    /\ error = "none"
    /\ input_exists = TRUE
    /\ overwrite = "unset"
    /\ start = Unbound
    /\ clock = 0
    /\ elapsed = Unbound
    /\ probe_output \in [rc : {0}, duration : BitrateDurations, width : BitrateWidths,
                         height : BitrateHeights, bits : BitsValues]
    /\ info = get_video_info(probe_output)
    /\ bitrate = NoBitrate
    /\ process = NoProcess
    /\ pbar_n = 0
    /\ output_file_size_mb = Unbound
    /\ calls = [check |-> 1, probe |-> 1, bitrate |-> 0, launch |-> 0]
    /\ verbosity = 0
    /\ stdout = NoPipe
    /\ reader = NoThread
    /\ communicated = 0

BitrateNext == CalculateBitrate

BitrateSpec == BitrateInit /\ [][BitrateNext]_vars

(***************************************************************************)
(* Properties.                                                             *)
(***************************************************************************)
NoCalls == [check |-> 0, probe |-> 0, bitrate |-> 0, launch |-> 0]

\* the run is over and it was not the user who stopped it
Ended == pc \in {"done", "crashed"}

\* the progress bar is open, or was closed with its last value
ProgressShown == pc \in {"poll", "sample", "final_update", "communicate", "report",
                         "cleanup", "done"}

\* C1: when the output file exists and the answer to the prompt is anything but
\* y or Y, the run ends with no ffmpeg check, no probe and no encoder, and the
\* old output file and the input file are as they were.
C1_DeclineLeavesEverything ==
    overwrite \notin {"unset", "y", "Y"} =>
        /\ pc = "cancelled"
        /\ calls = NoCalls
        /\ process = NoProcess
        /\ output_file = OldFile
        /\ input_exists

C1_Witness == pc = "cancelled" /\ overwrite = "yes" /\ output_file = OldFile

\* C2: when source deletion is requested and the encoder was launched and exited
\* with status 0, the input file is deleted by the end of the run, whether or
\* not the output file existed at the start.  Stated for runs with a positive
\* budget that end by themselves after the loop has sampled the output file.
C2_SourceDeletedOnSuccess ==
    (/\ Ended
     /\ max_size_mb > 0
     /\ remove_original
     /\ process.state = "exited"
     /\ process.returncode = 0
     /\ output_file_size_mb # Unbound) => ~input_exists

\* C3: the input file is deleted only when deletion was requested and the
\* encoder succeeded: never after the encoder exited with a non-zero status.
\* Stated for runs with a positive budget.
C3_SourceKeptOnFailure ==
    (max_size_mb > 0 /\ ~input_exists) =>
        /\ remove_original
        /\ process.state = "exited"
        /\ process.returncode = 0

\* C4: in the polling loop and after the final update, pbar.n is at most the
\* budget max_size_mb, whatever sizes the output file is seen to have.  Stated
\* for positive budgets.
C4_ProgressWithinBudget ==
    (ProgressShown /\ max_size_mb > 0) => pbar_n <= max_size_mb * SizeUnits

\* C5: every run in which the encoder was launched and exited reports an elapsed
\* time, the end time minus a start time taken before the launch, and that time
\* is not negative.  Stated for runs with a positive budget that end by
\* themselves after the loop has sampled the output file.
C5_ElapsedReported ==
    (/\ Ended
     /\ max_size_mb > 0
     /\ process.state = "exited"
     /\ output_file_size_mb # Unbound) =>
        /\ start # Unbound
        /\ elapsed # Unbound
        /\ elapsed >= 0
        /\ elapsed <= clock - start

\* C6: the probe has returned before the bitrate is computed, the bitrate is
\* computed once and before the encoder is launched, the encoder is given that
\* value, and the value does not change while the encoder runs.
C6_BitrateOnceBeforeLaunch ==
    /\ [](/\ calls.bitrate <= 1
          /\ calls.bitrate <= calls.probe
          /\ (calls.launch >= 1 => calls.bitrate = 1))
    /\ [][calls'.bitrate # calls.bitrate =>
              info.ok /\ calls.probe = 1 /\ calls.launch = 0]_vars
    /\ [][calls'.launch # calls.launch =>
              bitrate.ok /\ process'.bitrate = bitrate.value]_vars
    /\ [][process.state = "running" =>
              process'.bitrate = process.bitrate /\ calls'.bitrate = calls.bitrate]_vars

C6_Witness ==
    /\ process.state = "running"
    /\ process.bitrate # FloatZero
    /\ calls.bitrate = 1
    /\ output_file.exists

\* C7: with a budget max_size_mb <= 0 or a probed duration <= 0 the run fails
\* before any encoder is launched.
C7_NoLaunchWithoutBudget ==
    /\ process.state # "none" => max_size_mb > 0
    /\ pc = "popen" => info.duration.num > 0

\* C8: when ffmpeg is missing the program exits with status 1 and neither the
\* probe nor the encoder is launched.
C8_MissingFfmpegExits ==
    (~ffmpeg_installed /\ calls.check >= 1) =>
        /\ pc = "exited"
        /\ exit_code = 1
        /\ calls.check = 1
        /\ calls.probe = 0
        /\ calls.launch = 0
        /\ process = NoProcess

C8_Witness == pc = "exited" /\ ~ffmpeg_installed /\ error = "SystemExit"

\* the bitrate just computed and the simple form for the same budget and duration
Computed == bitrate.value
Simple == SimpleBitrate(max_size_mb, info.duration)
Resolution == info.width * info.height

\* calculate_bitrate has returned for a positive budget
BitrateComputed == pc = "popen" /\ max_size_mb > 0

\* C9 as stated: for duration > 0, budget > 0 and resolution > 0 calculate_bitrate
\* returns max_size_mb * 8192 / duration, whatever the resolution and bit depth.
C9_EqualsSimpleForm == BitrateComputed => Computed = Simple

\* C9 amended: the result is the simple form up to the rounding of the extra
\* division and multiplication: at most 4 units in the last place of the simple
\* form away from it, the same double when the resolution is a power of two,
\* and the same for every bit depth.
C9_SimpleFormUpToRounding ==
    BitrateComputed =>
        /\ UlpDistance(Computed, Simple) <= (IF Computed.exp < Simple.exp THEN 8 ELSE 4)
        /\ IsPow2(Resolution) => Computed = Simple
        /\ \A depth \in {8, 10, 12} :
              calculate_bitrate(max_size_mb, info.duration, Resolution, depth).value
                  = Computed

C9_Witness == BitrateComputed /\ Computed # Simple /\ UlpDistance(Computed, Simple) = 1

\* a duration value that is a number: digits with at most one dot
IsNumber(value) ==
    /\ value # NoLine
    /\ value # <<>>
    /\ \A i \in 1..Len(value) : value[i] \in Digits \cup {"."}
    /\ Cardinality({i \in 1..Len(value) : value[i] = "."}) <= 1
    /\ \E i \in 1..Len(value) : value[i] \in Digits

Present(value) == value # NoLine /\ \A i \in 1..Len(value) : value[i] \in Digits

Probed == probe_output # NoOutput /\ probe_output.rc = 0

\* C10: on output with duration, width and height but no bits_per_raw_sample
\* get_video_info succeeds with bit_depth 8; on output with no numeric duration
\* it raises, returns nothing, and the run ends without launching the encoder.
C10_ProbeDefaultsAndFailure ==
    /\ (/\ Probed
        /\ IsNumber(probe_output.duration)
        /\ Present(probe_output.width)
        /\ Present(probe_output.height)
        /\ probe_output.bits = NoLine) => info.ok /\ info.bit_depth = 8
    /\ (Probed /\ ~IsNumber(probe_output.duration)) =>
          /\ pc = "crashed"
          /\ error \in {"AttributeError", "ValueError"}
          /\ exit_code = 1
          /\ ~info.ok
          /\ calls.launch = 0
          /\ process = NoProcess

C10_Witness ==
    /\ pc = "calculate_bitrate"
    /\ probe_output.bits = NoLine
    /\ probe_output.duration = <<"2", ".", "5">>
    /\ info.bit_depth = 8

C10_WitnessFailure ==
    /\ pc = "crashed"
    /\ Probed
    /\ probe_output.duration \in {NoLine, <<"N", "/", "A">>}
    /\ error = "AttributeError"

\* C11: on every probe output with a valid duration get_video_info succeeds
\* whichever of the width, height and bits_per_raw_sample lines are absent,
\* and returns width 0, height 0 and bit_depth 8 for the absent ones.
C11_DimensionsOptional ==
    (Probed /\ IsNumber(probe_output.duration)) =>
        /\ info.ok
        /\ probe_output.width = NoLine => info.width = 0
        /\ probe_output.height = NoLine => info.height = 0
        /\ probe_output.bits = NoLine => info.bit_depth = DefaultBitDepth

\* the completion message of lines 157-158 has been logged and printed
Reported == elapsed # Unbound

\* C12: completion is reported and the input file is deleted only in states
\* where the child has exited and the polling loop has ended, never while the
\* child is running.
C12_CompletionAfterExit ==
    (Reported \/ ~input_exists) =>
        /\ process.state = "exited"
        /\ pc \in {"cleanup", "done", "interrupted"}

C12_Witness ==
    /\ pc = "done"
    /\ Reported
    /\ ~input_exists
    /\ process.state = "exited"

\* the final progress update of line 154 has been made
FinalUpdateDone == pc \in {"communicate", "report", "cleanup", "done"}

\* C13: after the child has exited and the final progress update has been
\* made, the progress value equals the final size of the output file in MB.
C13_FinalProgressIsFinalSize ==
    (FinalUpdateDone /\ max_size_mb > 0) =>
        pbar_n = output_size_mb(output_file.bytes)

(***************************************************************************)
(* The reader is a thread of its own: the scheduler runs it again and      *)
(* again, whatever the main task and the child do.                         *)
(***************************************************************************)
FairSpec ==
    /\ Spec
    /\ WF_vars(ReaderCall)
    /\ WF_vars(ReaderRead)
    /\ WF_vars(ReaderEof)
    /\ WF_vars(ReaderClosed)

\* the child is blocked in a write to the full pipe
ChildBlocked == process.state = "running" /\ stdout.pending

\* the reader logs the lines it reads when verbosity >= 3 and no others
LoggedAsConfigured == reader.logged = (IF verbosity >= 3 THEN reader.read ELSE 0)

\* the child's output has reached end of stream and nothing is left of it
EndOfStream == process.state = "exited" /\ stdout.lines = 0

\* a blocked child gets its line out
ChildNeverStuck == ChildBlocked ~> ~ChildBlocked

\* C14: at every verbosity the reader thread consumes every line the child
\* writes to its pipe until end of stream, logging a line only when
\* verbosity >= 3, so that with the reader scheduled fairly the child is
\* never blocked forever on a full pipe.
C14_ReaderDrainsChild ==
    /\ [](LoggedAsConfigured)
    /\ [](EndOfStream => reader.read = stdout.written)
    /\ ChildNeverStuck

\* the Python process has ended: the main task has, and so has the thread
\* running log_output, which is not a daemon (line 119) and keeps the
\* interpreter alive
ParentExited == pc \in Terminal /\ ~ReaderAlive

\* the main task has handled a KeyboardInterrupt at lines 178-180
Interrupted == pc = "interrupted"

C16_EachCallOnce ==
    /\ calls.check <= 1
    /\ calls.probe <= 1
    /\ calls.launch <= 1
    /\ (pc \in {"exited", "crashed"} /\ process = NoProcess) =>
          calls.check + calls.probe <= 2 /\ calls.launch = 0

C16_Witness ==
    /\ pc = "crashed"
    /\ error = "CalledProcessError"
    /\ calls = [check |-> 1, probe |-> 1, bitrate |-> 0, launch |-> 0]

\* the user was asked about the existing output file and answered y
Confirmed == overwrite # "unset" /\ ~Declines(overwrite)

\* the run ended in start_compression, before the encoder was launched
FailedBeforeLaunch == pc \in {"exited", "crashed"} /\ process = NoProcess

\* C17, as claimed: a pre-existing output file is deleted only in runs that
\* go on to launch the encoder; if the ffmpeg check or the probe fails after
\* the confirmation, the old file is still there when the run ends.
C17_OldOutputKeptOnFailure ==
    (Confirmed /\ FailedBeforeLaunch) => output_file = OldFile

\* C17, amended: a pre-existing output file is deleted at the confirmation,
\* before the ffmpeg check and the probe; if one of them then fails the run
\* ends with no output file at all.  Only a refusal keeps the old file.
C17_OldOutputDeletedOnConfirm ==
    /\ Confirmed => output_file.origin # "old"
    /\ (Confirmed /\ FailedBeforeLaunch) => ~output_file.exists
    /\ (overwrite # "unset" /\ Declines(overwrite)) => output_file = OldFile

C17_Witness ==
    /\ Confirmed
    /\ FailedBeforeLaunch
    /\ error \in {"SystemExit", "AttributeError"}
    /\ ~output_file.exists

\* the loop of lines 149-153 never sampled the output file
NeverSampled == output_file_size_mb = Unbound

\* C18: if the child exits before the loop has taken a sample of the output
\* file, compress_video still makes the final progress update, waits for the
\* child and reaches completion; it does not fail on an undefined size.
C18_CompletesWithoutSample ==
    /\ (pc = "crashed" /\ process.state = "exited") => ~NeverSampled
    /\ (Ended /\ process.state = "exited" /\ start # Unbound) => pc = "done"

\* process.communicate() has returned in the main task
Communicated == stdout.closed

\* C19: when completion is reported the reader thread has terminated, and
\* the main task's process.communicate() never runs while the loop of
\* log_output is still active, so the two never read the child's output
\* stream at the same time.
C19_ReaderJoinedBeforeReport ==
    /\ Reported => ~ReaderAlive
    /\ Communicated => ~ReaderAlive

====
